---- MODULE Spec2Model ----
(***************************************************************************)
(* A state-machine model of the go-mip modelling layer: Model, Var,        *)
(* Constraint, Objective, Term and QuadraticTerm.                          *)
(*                                                                         *)
(* Objects that the Go code handles by pointer (models, variables,         *)
(* constraints) live in heaps; a pointer is the position of the object in  *)
(* its heap.  float64 values are modelled by integers plus NaN, int64 and  *)
(* float64 keep a (scaled down) width so that the conversions between      *)
(* them round and overflow as the Go conversions do.                       *)
(***************************************************************************)
EXTENDS Integers, Sequences, FiniteSets, TLC

VARIABLES
    models,     \* heap of model structs; *model = position
    varHeap,    \* heap of floatVariable / intVariable / boolVariable structs
    conHeap,    \* heap of constraint structs
    held,       \* a slice the caller obtained from Vars() / Constraints()
    last,       \* the most recent call: its receiver's model, its outcome
    budget      \* how many more calls may change the state

vars == <<models, varHeap, conHeap, held, last, budget>>

---------------------------------------------------------------------------
(* Bounds of the model.                                                    *)

MaxModels    == 2   \* models alive: the first one and its copies
MaxCalls     == 4   \* calls that change the state
MaxAfterCopy == 1   \* of which after a copy was made
MaxTermCalls == 5   \* calls of the term-store specification
MaxNaNCalls  == 3   \* calls of the specification with NaN arguments
MaxSliceCalls == 3  \* calls of the specification of returned slices
MaxHeldOps   == 2   \* writes of the caller to a returned slice
MaxNameCalls == 5   \* calls of the specification of names
MaxCrossCalls == 4  \* calls of the specification with terms across models

(* Widths of int64 and of the float64 mantissa, scaled down.               *)
IntBits  == 5
MantBits == 3

---------------------------------------------------------------------------
(* Numbers.                                                                *)

RECURSIVE Pow2(_)
Pow2(n) == IF n = 0 THEN 1 ELSE 2 * Pow2(n - 1)

MaxInt64 == Pow2(IntBits - 1) - 1
MinInt64 == 0 - Pow2(IntBits - 1)

Abs(x) == IF x < 0 THEN 0 - x ELSE x

(* A float64 argument of the API: a number or NaN.                         *)
F(x)     == [nan |-> FALSE, v |-> x]
NaN      == [nan |-> TRUE, v |-> 0]
IsNaN(f) == f.nan

(* The spacing of the float64 grid around magnitude a.                     *)
RECURSIVE Ulp(_, _)
Ulp(a, u) == IF a < u * Pow2(MantBits) THEN u ELSE Ulp(a, 2 * u)

(* float64(i) for an int64 i: round to nearest, ties to even mantissa.     *)
Float64OfInt(i) ==
    LET a    == Abs(i)
        u    == Ulp(a, 1)
        lo   == (a \div u) * u
        hi   == lo + u
        r    == IF a = lo THEN lo
                ELSE IF a - lo < hi - a THEN lo
                ELSE IF a - lo > hi - a THEN hi
                ELSE IF (lo \div u) % 2 = 0 THEN lo ELSE hi
    IN  IF i < 0 THEN 0 - r ELSE r

(* int64(f) for an integral float64 f.  Out of range the Go specification  *)
(* leaves the result to the implementation: amd64 yields the minimum       *)
(* int64, arm64 saturates.                                                 *)
Archs == {"amd64", "arm64"}

Int64OfFloat(f, arch) ==
    IF f >= MinInt64 /\ f <= MaxInt64 THEN f
    ELSE IF arch = "amd64" THEN MinInt64
    ELSE IF f > 0 THEN MaxInt64 ELSE MinInt64

---------------------------------------------------------------------------
(* Sense of a constraint (iota).                                           *)

LessThanOrEqual    == 0
Equal              == 1
GreaterThanOrEqual == 2

---------------------------------------------------------------------------
(* Go maps.                                                                *)

EmptyMap        == [k \in {} |-> 0]
MapPut(f, k, v) == [x \in (DOMAIN f) \cup {k} |-> IF x = k THEN v ELSE f[x]]
MapDel(f, k)    == [x \in (DOMAIN f) \ {k} |-> f[x]]

(* The world the pure operations transform: the three heaps and whether    *)
(* the call panicked.                                                      *)
World == [models |-> models, varHeap |-> varHeap, conHeap |-> conHeap,
          panic |-> FALSE]

(* The world after the step, for the properties of steps.                  *)
WorldNext == [models |-> models', varHeap |-> varHeap', conHeap |-> conHeap',
              panic |-> last'.panic]

Panic(w) == [w EXCEPT !.panic = TRUE]

---------------------------------------------------------------------------
(* model.go                                                                *)

NewModel(w) ==
    [w EXCEPT !.models = Append(@,
        [objective       |-> [terms |-> <<>>, quadraticTerms |-> <<>>,
                              maximize |-> FALSE],
         constraintNames |-> EmptyMap,
         varNames        |-> EmptyMap,
         constraints     |-> <<>>,
         vars            |-> <<>>])]

(* A name table keyed by the constraint's value, not by its identity.      *)
setConstraintNameByValue(w, m, constraint, name) ==
    [w EXCEPT !.models[m].constraintNames =
        [c \in DOMAIN @ \cup {k \in DOMAIN w.conHeap :
                                  w.conHeap[k] = w.conHeap[constraint]} |->
            IF w.conHeap[c] = w.conHeap[constraint] THEN name ELSE @[c]]]

setConstraintName(w, m, constraint, name) ==
    [w EXCEPT !.models[m].constraintNames = MapPut(@, constraint, name)]

getConstraintName(w, m, constraint) ==
    IF constraint \in DOMAIN w.models[m].constraintNames
    THEN w.models[m].constraintNames[constraint]
    ELSE ""

setVarName(w, m, variable, name) ==
    [w EXCEPT !.models[m].varNames = MapPut(@, variable, name)]

getVarName(w, m, variable) ==
    IF variable \in DOMAIN w.models[m].varNames
    THEN w.models[m].varNames[variable]
    ELSE ""

(* A slice is its elements and its backing array: a new array, or the     *)
(* array of the model's own slice.  make gives a new array of zero values, *)
(* copy fills it from the source.                                          *)
makeSlice(n) == [array |-> "new", elems |-> [i \in 1..n |-> 0]]

copySlice(dst, src) ==
    [dst EXCEPT !.elems = [i \in 1..Len(dst.elems) |->
                              IF i <= Len(src) THEN src[i] ELSE dst.elems[i]]]

(* Vars() and Constraints() that hand out the model's own slice.           *)
VarsShared(w, m) == [array |-> "model", elems |-> w.models[m].vars]

ConstraintsShared(w, m) ==
    [array |-> "model", elems |-> w.models[m].constraints]

(* Vars() and Constraints(): make a slice of the same length and copy.     *)
Vars(w, m) ==
    copySlice(makeSlice(Len(w.models[m].vars)), w.models[m].vars)

Constraints(w, m) ==
    copySlice(makeSlice(Len(w.models[m].constraints)),
              w.models[m].constraints)

(* The elements of the slice that Vars() and Constraints() return.         *)
modelVars(w, m)        == Vars(w, m).elems
modelConstraints(w, m) == Constraints(w, m).elems

(* A variable numbered by the count of all variables, not of the model's.  *)
newBoolGlobalIndex(w, m) ==
    LET b == [kind |-> "bool", index |-> Len(w.varHeap), model |-> m]
    IN  [w EXCEPT !.varHeap = Append(@, b),
                  !.models[m].vars = Append(@, Len(w.varHeap) + 1)]

newBool(w, m) ==
    LET b == [kind |-> "bool", index |-> Len(w.models[m].vars), model |-> m]
    IN  [w EXCEPT !.varHeap = Append(@, b),
                  !.models[m].vars = Append(@, Len(w.varHeap) + 1)]

newFloat(w, m, lowerBound, upperBound) ==
    IF IsNaN(lowerBound) THEN Panic(w)
    ELSE IF IsNaN(upperBound) THEN Panic(w)
    ELSE LET f == [kind |-> "float", index |-> Len(w.models[m].vars),
                   model |-> m,
                   lowerBound |-> lowerBound.v, upperBound |-> upperBound.v]
         IN  [w EXCEPT !.varHeap = Append(@, f),
                       !.models[m].vars = Append(@, Len(w.varHeap) + 1)]

newInt(w, m, lowerBound, upperBound) ==
    LET i == [kind |-> "int", index |-> Len(w.models[m].vars), model |-> m,
              lowerBound |-> lowerBound, upperBound |-> upperBound]
    IN  [w EXCEPT !.varHeap = Append(@, i),
                  !.models[m].vars = Append(@, Len(w.varHeap) + 1)]

newConstraint(w, m, sense, rightHandSide) ==
    IF IsNaN(rightHandSide) THEN Panic(w)
    ELSE LET constraint == [model |-> m, rightHandSide |-> rightHandSide.v,
                            sense |-> sense, terms |-> <<>>]
         IN  [w EXCEPT !.conHeap = Append(@, constraint),
                       !.models[m].constraints =
                           Append(@, Len(w.conHeap) + 1)]

---------------------------------------------------------------------------
(* Variables (var.go).                                                     *)

Index(w, v)   == w.varHeap[v].index
IsBool(w, v)  == w.varHeap[v].kind = "bool"
IsFloat(w, v) == w.varHeap[v].kind = "float"
IsInt(w, v)   == w.varHeap[v].kind \in {"int", "bool"}

LowerBound(w, v) ==
    CASE w.varHeap[v].kind = "float" -> w.varHeap[v].lowerBound
      [] w.varHeap[v].kind = "int"   -> Float64OfInt(w.varHeap[v].lowerBound)
      [] w.varHeap[v].kind = "bool"  -> 0

UpperBound(w, v) ==
    CASE w.varHeap[v].kind = "float" -> w.varHeap[v].upperBound
      [] w.varHeap[v].kind = "int"   -> Float64OfInt(w.varHeap[v].upperBound)
      [] w.varHeap[v].kind = "bool"  -> 1

VarName(w, v) == getVarName(w, w.varHeap[v].model, v)

varSetName(w, v, name) == setVarName(w, w.varHeap[v].model, v, name)

---------------------------------------------------------------------------
(* Sequences and slices.                                                   *)

SetMin(S) == CHOOSE x \in S : \A y \in S : x <= y

(* The elements of a map in ascending key order: one of the orders in      *)
(* which a Go range over the map may deliver them.                         *)
RECURSIVE MapValues(_)
MapValues(f) ==
    IF DOMAIN f = {} THEN <<>>
    ELSE LET k == SetMin(DOMAIN f)
         IN  <<f[k]>> \o MapValues(MapDel(f, k))

RECURSIVE Flatten(_)
Flatten(ss) == IF ss = <<>> THEN <<>> ELSE Head(ss) \o Flatten(Tail(ss))

(* Every order in which the elements of s may be delivered.                *)
Orderings(s) ==
    LET n == Len(s)
        P == {p \in [1..n -> 1..n] : \A i, j \in 1..n : p[i] = p[j] => i = j}
    IN  {[i \in 1..n |-> s[p[i]]] : p \in P}

---------------------------------------------------------------------------
(* term.go                                                                 *)

term(coefficient, variable) ==
    [coefficient |-> coefficient, variable |-> variable]

quadraticTerm(coefficient, variable1, variable2) ==
    [coefficient |-> coefficient, variable1 |-> variable1,
     variable2 |-> variable2]

(* The loop of makeLinearTermsUnique over the raw terms; uniqueTerms is    *)
(* the map[Var]Term, keyed by the variable pointer.                        *)
RECURSIVE linearLoop(_, _)
linearLoop(terms, uniqueTerms) ==
    IF terms = <<>> THEN uniqueTerms
    ELSE LET t == Head(terms)
             next ==
               IF t.coefficient = 0 THEN uniqueTerms
               ELSE IF t.variable \notin DOMAIN uniqueTerms
                    THEN MapPut(uniqueTerms, t.variable, t)
               ELSE LET coefficient ==
                            uniqueTerms[t.variable].coefficient + t.coefficient
                    IN  IF coefficient = 0
                        THEN MapDel(uniqueTerms, t.variable)
                        ELSE MapPut(uniqueTerms, t.variable,
                                    term(coefficient, t.variable))
         IN  linearLoop(Tail(terms), next)

(* The loop without the deletion of a variable whose sum reaches zero.     *)
RECURSIVE linearLoopKeepsZero(_, _)
linearLoopKeepsZero(terms, uniqueTerms) ==
    IF terms = <<>> THEN uniqueTerms
    ELSE LET t == Head(terms)
             next ==
               IF t.coefficient = 0 THEN uniqueTerms
               ELSE IF t.variable \notin DOMAIN uniqueTerms
                    THEN MapPut(uniqueTerms, t.variable, t)
               ELSE MapPut(uniqueTerms, t.variable,
                        term(uniqueTerms[t.variable].coefficient
                                 + t.coefficient, t.variable))
         IN  linearLoopKeepsZero(Tail(terms), next)

makeLinearTermsUniqueKeepsZero(terms) ==
    MapValues(linearLoopKeepsZero(terms, EmptyMap))

makeLinearTermsUnique(terms) == MapValues(linearLoop(terms, EmptyMap))

(* The loop of makeQuadraticTermsUnique; terms is the                      *)
(* map[Var]map[Var]QuadraticTerm.                                          *)
RECURSIVE quadraticLoop(_, _)
quadraticLoop(quadraticTerms, terms) ==
    IF quadraticTerms = <<>> THEN terms
    ELSE LET v  == Head(quadraticTerms)
             v1 == v.variable1
             v2 == v.variable2
             next ==
               IF v.coefficient = 0 THEN terms
               ELSE IF v1 \notin DOMAIN terms
                    THEN MapPut(terms, v1, MapPut(EmptyMap, v2, v))
               ELSE IF v2 \notin DOMAIN terms[v1]
                    THEN MapPut(terms, v1, MapPut(terms[v1], v2, v))
               ELSE LET newCoef == v.coefficient + terms[v1][v2].coefficient
                    IN  IF newCoef = 0
                        THEN MapPut(terms, v1, MapDel(terms[v1], v2))
                        ELSE MapPut(terms, v1,
                                 MapPut(terms[v1], v2,
                                        quadraticTerm(newCoef, v1, v2)))
         IN  quadraticLoop(Tail(quadraticTerms), next)

makeQuadraticTermsUnique(quadraticTerms) ==
    LET terms == quadraticLoop(quadraticTerms, EmptyMap)
    IN  Flatten(MapValues([k \in DOMAIN terms |-> MapValues(terms[k])]))

(* The variables kept in the order the caller gave them.                   *)
newQuadraticTermUnordered(w, coefficient, variable1, variable2) ==
    quadraticTerm(coefficient, variable1, variable2)

newQuadraticTerm(w, coefficient, variable1, variable2) ==
    IF Index(w, variable1) <= Index(w, variable2)
    THEN quadraticTerm(coefficient, variable1, variable2)
    ELSE quadraticTerm(coefficient, variable2, variable1)

---------------------------------------------------------------------------
(* constraint.go                                                           *)

constraintNewTerm(w, c, coefficient, variable) ==
    IF IsNaN(coefficient) THEN Panic(w)
    ELSE [w EXCEPT !.conHeap[c].terms =
                       Append(@, term(coefficient.v, variable))]

RightHandSide(w, c) == w.conHeap[c].rightHandSide
Sense(w, c)         == w.conHeap[c].sense

(* The loop of Term(variable): raw terms are matched by variable index.    *)
RECURSIVE termLoop(_, _, _, _)
termLoop(w, terms, variable, acc) ==
    IF terms = <<>> THEN acc
    ELSE LET t == Head(terms)
         IN  termLoop(w, Tail(terms), variable,
                 IF Index(w, t.variable) = Index(w, variable)
                 THEN [coefficient |-> acc.coefficient + t.coefficient,
                       definitions |-> acc.definitions + 1]
                 ELSE acc)

(* Term(variable) that does not count the terms with coefficient zero.     *)
constraintTermSkipsZero(w, c, variable) ==
    LET r == termLoop(w, SelectSeq(w.conHeap[c].terms,
                                       LAMBDA t : t.coefficient # 0),
                      variable, [coefficient |-> 0, definitions |-> 0])
    IN  [term |-> term(r.coefficient, variable), definitions |-> r.definitions]

constraintTerm(w, c, variable) ==
    LET r == termLoop(w, w.conHeap[c].terms, variable,
                      [coefficient |-> 0, definitions |-> 0])
    IN  [term |-> term(r.coefficient, variable), definitions |-> r.definitions]

constraintTerms(w, c) == makeLinearTermsUnique(w.conHeap[c].terms)

constraintName(w, c) == getConstraintName(w, w.conHeap[c].model, c)

constraintSetName(w, c, name) ==
    setConstraintName(w, w.conHeap[c].model, c, name)

---------------------------------------------------------------------------
(* objective.go                                                            *)

SetMaximize(w, m) == [w EXCEPT !.models[m].objective.maximize = TRUE]
(* SetMinimize that flips the flag.                                        *)
SetMinimizeFlips(w, m) ==
    [w EXCEPT !.models[m].objective.maximize = ~@]

SetMinimize(w, m) == [w EXCEPT !.models[m].objective.maximize = FALSE]

(* NewTerm that appends the term before it looks at the coefficient.       *)
objectiveNewTermLinksFirst(w, m, coefficient, variable) ==
    LET linked == [w EXCEPT !.models[m].objective.terms =
                                Append(@, term(coefficient.v, variable))]
    IN  IF IsNaN(coefficient) THEN Panic(linked) ELSE linked

objectiveNewTerm(w, m, coefficient, variable) ==
    IF IsNaN(coefficient) THEN Panic(w)
    ELSE [w EXCEPT !.models[m].objective.terms =
                       Append(@, term(coefficient.v, variable))]

objectiveNewQuadraticTerm(w, m, coefficient, variable1, variable2) ==
    IF IsNaN(coefficient) THEN Panic(w)
    ELSE [w EXCEPT !.models[m].objective.quadraticTerms =
              Append(@, newQuadraticTerm(w, coefficient.v,
                                         variable1, variable2))]

IsMaximize(w, m)  == w.models[m].objective.maximize
IsQuadratic(w, m) == Len(w.models[m].objective.quadraticTerms) > 0
IsLinear(w, m)    == ~IsQuadratic(w, m)

objectiveTerm(w, m, variable) ==
    LET r == termLoop(w, w.models[m].objective.terms, variable,
                      [coefficient |-> 0, definitions |-> 0])
    IN  [term |-> term(r.coefficient, variable), definitions |-> r.definitions]

objectiveTerms(w, m) == makeLinearTermsUnique(w.models[m].objective.terms)

RECURSIVE quadraticTermLoop(_, _, _, _, _)
quadraticTermLoop(w, quadraticTerms, var1, var2, acc) ==
    IF quadraticTerms = <<>> THEN acc
    ELSE LET t == Head(quadraticTerms)
         IN  quadraticTermLoop(w, Tail(quadraticTerms), var1, var2,
                 IF /\ Index(w, t.variable1) = Index(w, var1)
                    /\ Index(w, t.variable2) = Index(w, var2)
                 THEN [coefficient |-> acc.coefficient + t.coefficient,
                       definitions |-> acc.definitions + 1]
                 ELSE acc)

(* QuadraticTerm that looks the pair up in the order it was given.         *)
objectiveQuadraticTermAsGiven(w, m, variable1, variable2) ==
    LET r == quadraticTermLoop(w, w.models[m].objective.quadraticTerms,
                 variable1, variable2, [coefficient |-> 0, definitions |-> 0])
    IN  [term |-> newQuadraticTerm(w, r.coefficient, variable1, variable2),
         definitions |-> r.definitions]

objectiveQuadraticTerm(w, m, variable1, variable2) ==
    LET swap == ~(Index(w, variable1) <= Index(w, variable2))
        var1 == IF swap THEN variable2 ELSE variable1
        var2 == IF swap THEN variable1 ELSE variable2
        r    == quadraticTermLoop(w, w.models[m].objective.quadraticTerms,
                    var1, var2, [coefficient |-> 0, definitions |-> 0])
    IN  [term |-> newQuadraticTerm(w, r.coefficient, var1, var2),
         definitions |-> r.definitions]

objectiveQuadraticTerms(w, m) ==
    makeQuadraticTermsUnique(w.models[m].objective.quadraticTerms)

---------------------------------------------------------------------------
(* String(): the text of a variable, a term, a constraint, an objective.   *)
(* A number is printed with %v.  terms and qTerms are Terms() and          *)
(* QuadraticTerms() in the order the map delivered them.                   *)

varString(w, v) ==
    IF VarName(w, v) # "" THEN VarName(w, v)
    ELSE (IF w.varHeap[v].kind = "float" THEN "F"
          ELSE IF w.varHeap[v].kind = "int" THEN "I" ELSE "B")
         \o ToString(Index(w, v))

termString(w, t) ==
    ToString(t.coefficient) \o " " \o varString(w, t.variable)

quadraticTermString(w, t) ==
    IF Index(w, t.variable1) = Index(w, t.variable2)
    THEN ToString(t.coefficient) \o " " \o varString(w, t.variable1) \o "^2"
    ELSE ToString(t.coefficient) \o " " \o varString(w, t.variable1)
             \o "*" \o varString(w, t.variable2)

(* sort.SliceStable by Var().Index(): equal indices keep their order.      *)
RECURSIVE insertByIndex(_, _, _)
insertByIndex(w, sorted, t) ==
    IF sorted = <<>> THEN <<t>>
    ELSE IF Index(w, t.variable) < Index(w, Head(sorted).variable)
         THEN <<t>> \o sorted
         ELSE <<Head(sorted)>> \o insertByIndex(w, Tail(sorted), t)

(* The terms left as the map delivered them.                               *)
sortByIndexSkipped(w, terms) == terms

RECURSIVE sortByIndex(_, _)
sortByIndex(w, terms) ==
    IF terms = <<>> THEN <<>>
    ELSE insertByIndex(w, sortByIndex(w, SubSeq(terms, 1, Len(terms) - 1)),
                       terms[Len(terms)])

(* sort.SliceStable by (Var1().Index(), Var2().Index()).                   *)
quadraticLess(w, a, b) ==
    \/ Index(w, a.variable1) < Index(w, b.variable1)
    \/ /\ Index(w, a.variable1) = Index(w, b.variable1)
       /\ Index(w, a.variable2) < Index(w, b.variable2)

RECURSIVE insertByIndexPair(_, _, _)
insertByIndexPair(w, sorted, t) ==
    IF sorted = <<>> THEN <<t>>
    ELSE IF quadraticLess(w, t, Head(sorted))
         THEN <<t>> \o sorted
         ELSE <<Head(sorted)>> \o insertByIndexPair(w, Tail(sorted), t)

RECURSIVE sortByIndexPair(_, _)
sortByIndexPair(w, qTerms) ==
    IF qTerms = <<>> THEN <<>>
    ELSE insertByIndexPair(w,
             sortByIndexPair(w, SubSeq(qTerms, 1, Len(qTerms) - 1)),
             qTerms[Len(qTerms)])

senseString(sense) ==
    IF sense = LessThanOrEqual THEN "<="
    ELSE IF sense = Equal THEN "="
    ELSE IF sense = GreaterThanOrEqual THEN ">=" ELSE ""

(* The loop of constraint.String over the sorted terms, from position i.   *)
RECURSIVE constraintTermsString(_, _, _)
constraintTermsString(w, terms, i) ==
    IF i > Len(terms) THEN ""
    ELSE (IF i = 1 THEN "" ELSE "+ ") \o termString(w, terms[i]) \o " "
             \o constraintTermsString(w, terms, i + 1)

constraintString(w, c, terms) ==
    constraintTermsString(w, sortByIndex(w, terms), 1)
        \o senseString(Sense(w, c))
        \o " " \o ToString(RightHandSide(w, c))

(* The loops of objective.String: texts is the text of each sorted term,   *)
(* operator is " " until a term was written.                               *)
RECURSIVE objectiveTermsString(_, _)
objectiveTermsString(texts, operator) ==
    IF texts = <<>> THEN ""
    ELSE " " \o operator \o " " \o Head(texts)
             \o objectiveTermsString(Tail(texts), "+")

objectiveString(w, m, terms, qTerms) ==
    LET sorted  == sortByIndex(w, terms)
        qSorted == sortByIndexPair(w, qTerms)
        texts   == [i \in 1..Len(sorted) |-> termString(w, sorted[i])]
        qTexts  == [i \in 1..Len(qSorted) |->
                        quadraticTermString(w, qSorted[i])]
    IN  (IF IsMaximize(w, m) THEN "maximize" ELSE "minimize")
            \o objectiveTermsString(texts \o qTexts, " ")

---------------------------------------------------------------------------
(* model.Copy                                                              *)

LastVar(w, m) == w.models[m].vars[Len(w.models[m].vars)]
LastConstraint(w, m) == w.models[m].constraints[Len(w.models[m].constraints)]

(* copyVar.SetName(name) on the variable just added to copyModel.          *)
nameLastVar(w, copyModel, name) == varSetName(w, LastVar(w, copyModel), name)

(* The body of `for _, v := range m.Vars()`: the switch on the kind of v.  *)
copyVar(w, v, copyModel, arch) ==
    IF IsFloat(w, v)
    THEN nameLastVar(newFloat(w, copyModel,
                              F(LowerBound(w, v)), F(UpperBound(w, v))),
                     copyModel, VarName(w, v))
    ELSE IF IsBool(w, v)
    THEN nameLastVar(newBool(w, copyModel), copyModel, VarName(w, v))
    ELSE IF IsInt(w, v)
    THEN nameLastVar(newInt(w, copyModel,
                            Int64OfFloat(LowerBound(w, v), arch),
                            Int64OfFloat(UpperBound(w, v), arch)),
                     copyModel, VarName(w, v))
    ELSE w

RECURSIVE copyVarsLoop(_, _, _, _)
copyVarsLoop(w, vs, copyModel, arch) ==
    IF vs = <<>> THEN w
    ELSE copyVarsLoop(copyVar(w, Head(vs), copyModel, arch),
                      Tail(vs), copyModel, arch)

copyVariables(w, m, copyModel, arch) ==
    copyVarsLoop(w, modelVars(w, m), copyModel, arch)

copySense(w, m, copyModel) ==
    IF IsMaximize(w, m) THEN SetMaximize(w, copyModel)
    ELSE SetMinimize(w, copyModel)

(* for _, t := range m.Objective().Terms(): vars[t.Var().Index()] panics   *)
(* when the index is out of range.                                         *)
RECURSIVE copyObjectiveTermsLoop(_, _, _, _)
copyObjectiveTermsLoop(w, ts, copyModel, copyVars) ==
    IF ts = <<>> \/ w.panic THEN w
    ELSE IF Index(w, Head(ts).variable) >= Len(copyVars) THEN Panic(w)
    ELSE copyObjectiveTermsLoop(
             objectiveNewTerm(w, copyModel, F(Head(ts).coefficient),
                              copyVars[Index(w, Head(ts).variable) + 1]),
             Tail(ts), copyModel, copyVars)

copyObjectiveTerms(w, objOrder, copyModel) ==
    copyObjectiveTermsLoop(w, objOrder, copyModel, modelVars(w, copyModel))

RECURSIVE copyConstraintTermsLoop(_, _, _, _)
copyConstraintTermsLoop(w, ts, copyConstraint, copyVars) ==
    IF ts = <<>> \/ w.panic THEN w
    ELSE IF Index(w, Head(ts).variable) >= Len(copyVars) THEN Panic(w)
    ELSE copyConstraintTermsLoop(
             constraintNewTerm(w, copyConstraint, F(Head(ts).coefficient),
                               copyVars[Index(w, Head(ts).variable) + 1]),
             Tail(ts), copyConstraint, copyVars)

(* copyConstraint.SetName(name) on the constraint just added.              *)
nameLastConstraint(w, copyModel, name) ==
    IF w.panic THEN w
    ELSE constraintSetName(w, LastConstraint(w, copyModel), name)

(* The terms of c, in the order given, onto the constraint just added.     *)
fillLastConstraint(w, order, copyModel) ==
    copyConstraintTermsLoop(w, order, LastConstraint(w, copyModel),
                            modelVars(w, copyModel))

(* A shallow copy: the constraint of the source is appended to the copy.   *)
copyConstraintShallow(w, c, order, copyModel) ==
    [w EXCEPT !.models[copyModel].constraints = Append(@, c)]

(* The body of `for _, c := range m.Constraints()`.                        *)
copyConstraint(w, c, order, copyModel) ==
    nameLastConstraint(
        fillLastConstraint(
            newConstraint(w, copyModel, Sense(w, c), F(RightHandSide(w, c))),
            order, copyModel),
        copyModel, constraintName(w, c))

(* orders[k] is the order in which c.Terms() delivers the terms of the     *)
(* k-th constraint.                                                        *)
RECURSIVE copyConstraintsLoop(_, _, _, _)
copyConstraintsLoop(w, cs, orders, copyModel) ==
    IF cs = <<>> \/ w.panic THEN w
    ELSE copyConstraintsLoop(
             copyConstraint(w, Head(cs), Head(orders), copyModel),
             Tail(cs), Tail(orders), copyModel)

copyConstraints(w, m, conOrders, copyModel) ==
    copyConstraintsLoop(w, modelConstraints(w, m), conOrders, copyModel)

(* Copy of model m into the fresh model copyModel.                         *)
copyInto(w, m, copyModel, arch, objOrder, conOrders) ==
    copyConstraints(
        copyObjectiveTerms(
            copySense(copyVariables(w, m, copyModel, arch), m, copyModel),
            objOrder, copyModel),
        m, conOrders, copyModel)

(* m.Copy().  arch is the platform the program was built for, objOrder and *)
(* conOrders the orders in which the map ranges of Terms() deliver the     *)
(* canonical terms.  The copy is the last model of the result.             *)
copy(w, m, arch, objOrder, conOrders) ==
    copyInto(NewModel(w), m, Len(w.models) + 1, arch, objOrder, conOrders)

(* The orders in which the Terms() of the constraints of m may be ranged.  *)
ConstraintOrderings(w, m) ==
    LET cs == modelConstraints(w, m)
        n  == Len(cs)
        U  == UNION {Orderings(constraintTerms(w, cs[k])) : k \in 1..n}
    IN  {o \in [1..n -> U] :
            \A k \in 1..n : o[k] \in Orderings(constraintTerms(w, cs[k]))}

---------------------------------------------------------------------------
(* The state machine.  One action per API call; the caller reaches every   *)
(* object through a model m, which `last` records.                         *)

NoSlice ==
    [of |-> "none", model |-> 0, array |-> "new", elems |-> <<>>, ops |-> 0]

InitWith(calls) ==
    /\ models  = NewModel([models |-> <<>>]).models
    /\ varHeap = <<>>
    /\ conHeap = <<>>
    /\ held    = NoSlice
    /\ last    = [op |-> "NewModel", model |-> 1, panic |-> FALSE]
    /\ budget  = calls

Init == InitWith(MaxCalls)

Min(a, b) == IF a < b THEN a ELSE b

Changes(r) ==
    r.models # models \/ r.varHeap # varHeap \/ r.conHeap # conHeap

(* A call on an object of model m returned, or panicked, leaving the heaps *)
(* as in r.  `last` names the call when it made a copy or panicked.        *)
Returns(op, m, r) ==
    /\ models'  = r.models
    /\ varHeap' = r.varHeap
    /\ conHeap' = r.conHeap
    /\ last'    = [op    |-> IF op = "Copy" \/ r.panic THEN op ELSE "call",
                   model |-> m, panic |-> r.panic]
    /\ budget'  = IF op = "Copy" THEN Min(budget, MaxAfterCopy)
                  ELSE IF Changes(r) THEN budget - 1 ELSE budget
    /\ budget' >= 0
    /\ UNCHANGED held

NewBool(m) == Returns("NewBool", m, newBool(World, m))

NewFloat(m, lowerBound, upperBound) ==
    Returns("NewFloat", m, newFloat(World, m, lowerBound, upperBound))

NewInt(m, lowerBound, upperBound) ==
    Returns("NewInt", m, newInt(World, m, lowerBound, upperBound))

NewConstraint(m, sense, rightHandSide) ==
    Returns("NewConstraint", m, newConstraint(World, m, sense, rightHandSide))

ConstraintNewTerm(m, c, coefficient, variable) ==
    Returns("Constraint.NewTerm", m,
            constraintNewTerm(World, c, coefficient, variable))

ConstraintSetName(m, c, name) ==
    Returns("Constraint.SetName", m, constraintSetName(World, c, name))

VarSetName(m, v, name) ==
    Returns("Var.SetName", m, varSetName(World, v, name))

ObjectiveNewTerm(m, coefficient, variable) ==
    Returns("Objective.NewTerm", m,
            objectiveNewTerm(World, m, coefficient, variable))

ObjectiveNewQuadraticTerm(m, coefficient, variable1, variable2) ==
    Returns("Objective.NewQuadraticTerm", m,
            objectiveNewQuadraticTerm(World, m, coefficient,
                                      variable1, variable2))

ObjectiveSetMaximize(m) ==
    Returns("Objective.SetMaximize", m, SetMaximize(World, m))

ObjectiveSetMinimize(m) ==
    Returns("Objective.SetMinimize", m, SetMinimize(World, m))

Copy(m) ==
    \E arch \in Archs :
    \E objOrder \in Orderings(objectiveTerms(World, m)) :
    \E conOrders \in ConstraintOrderings(World, m) :
        LET r == copy(World, m, arch, objOrder, conOrders)
        IN  Returns("Copy", m, IF r.panic THEN Panic(World) ELSE r)

---------------------------------------------------------------------------
(* The arguments the caller supplies.                                      *)

FloatBoundInputs == {<<F(0), F(1)>>}
NaNBoundInputs   == {<<NaN, F(1)>>, <<F(0), NaN>>}
IntBoundInputs   == {<<0, 1>>, <<0, MaxInt64>>}
ConstraintInputs == {<<LessThanOrEqual, F(1)>>, <<GreaterThanOrEqual, F(0)>>}
NaNConstraintInputs == {<<Equal, NaN>>}
CoefInputs       == {F(1), F(0 - 1)}
NameInputs       == {"a"}

ModelPtrs == 1..Len(models)

(* The variables and constraints the caller reaches through model m.       *)
VarsOf(m)        == {models[m].vars[i] : i \in 1..Len(models[m].vars)}
ConstraintsOf(m) ==
    {models[m].constraints[i] : i \in 1..Len(models[m].constraints)}

(* The calls with arguments drawn from the given sets; Returns keeps them  *)
(* within the budget.                                                      *)
Calls(floats, ints, cons, coefs, names) ==
    \/ \E m \in ModelPtrs : NewBool(m)
    \/ \E m \in ModelPtrs, b \in floats : NewFloat(m, b[1], b[2])
    \/ \E m \in ModelPtrs, b \in ints : NewInt(m, b[1], b[2])
    \/ \E m \in ModelPtrs, a \in cons : NewConstraint(m, a[1], a[2])
    \/ \E m \in ModelPtrs : \E c \in ConstraintsOf(m), v \in VarsOf(m) :
       \E k \in coefs : ConstraintNewTerm(m, c, k, v)
    \/ \E m \in ModelPtrs : \E v \in VarsOf(m) : \E k \in coefs :
           ObjectiveNewTerm(m, k, v)
    \/ \E m \in ModelPtrs : \E v1, v2 \in VarsOf(m) : \E k \in coefs :
           ObjectiveNewQuadraticTerm(m, k, v1, v2)
    \/ \E m \in ModelPtrs : \E v \in VarsOf(m) : \E n \in names :
           VarSetName(m, v, n)
    \/ \E m \in ModelPtrs : \E c \in ConstraintsOf(m) : \E n \in names :
           ConstraintSetName(m, c, n)
    \/ \E m \in ModelPtrs : ObjectiveSetMaximize(m)
    \/ \E m \in ModelPtrs : ObjectiveSetMinimize(m)

(* The whole API on valid arguments, copies included.                      *)
Next ==
    \/ Calls(FloatBoundInputs, IntBoundInputs, ConstraintInputs,
             CoefInputs, NameInputs)
    \/ \E m \in ModelPtrs : Len(models) < MaxModels /\ Copy(m)

Spec == Init /\ [][Next]_vars

(* The term stores of one model: bool variables, a constraint, and linear  *)
(* and quadratic terms with coefficients that are zero or cancel.          *)
TermCoefInputs == {F(0 - 1), F(0), F(1)}

InitTerms == InitWith(MaxTermCalls)

NextTerms ==
    \/ \E m \in ModelPtrs : NewBool(m)
    \/ \E m \in ModelPtrs : NewConstraint(m, LessThanOrEqual, F(1))
    \/ \E m \in ModelPtrs : \E c \in ConstraintsOf(m), v \in VarsOf(m) :
       \E k \in TermCoefInputs : ConstraintNewTerm(m, c, k, v)
    \/ \E m \in ModelPtrs : \E v \in VarsOf(m) : \E k \in TermCoefInputs :
           ObjectiveNewTerm(m, k, v)
    \/ \E m \in ModelPtrs : \E v1, v2 \in VarsOf(m) :
       \E k \in TermCoefInputs : ObjectiveNewQuadraticTerm(m, k, v1, v2)

SpecTerms == InitTerms /\ [][NextTerms]_vars

(* The API of one model with NaN among the bounds, right-hand sides and    *)
(* coefficients; a panicking call is recovered and the caller goes on.     *)
InitNaN == InitWith(MaxNaNCalls)

NextNaN ==
    Calls(FloatBoundInputs \cup NaNBoundInputs, IntBoundInputs,
          ConstraintInputs \cup NaNConstraintInputs,
          CoefInputs \cup {NaN}, NameInputs)

SpecNaN == InitNaN /\ [][NextNaN]_vars

(* The caller keeps a slice that Vars() or Constraints() returned and      *)
(* writes to it.  A write lands in the slice's backing array, so it shows  *)
(* in the model's own slice when the two share the array.                  *)
Overlay(old, elems) ==
    [i \in 1..Len(old) |-> IF i <= Len(elems) THEN elems[i] ELSE old[i]]

Keeps(m, slice) ==
    /\ held' = [of |-> IF slice = "vars" THEN "vars" ELSE "constraints",
                model |-> m,
                array |-> IF slice = "vars" THEN Vars(World, m).array
                          ELSE Constraints(World, m).array,
                elems |-> IF slice = "vars" THEN Vars(World, m).elems
                          ELSE Constraints(World, m).elems,
                ops   |-> held.ops]
    /\ held' # held
    /\ last' = [op |-> "call", model |-> m, panic |-> FALSE]
    /\ UNCHANGED <<models, varHeap, conHeap, budget>>

GetVars(m)        == Keeps(m, "vars")
GetConstraints(m) == Keeps(m, "constraints")

HeldBecomes(elems) ==
    /\ held.of # "none" /\ held.ops < MaxHeldOps
    /\ held' = [held EXCEPT !.elems = elems, !.ops = @ + 1]
    /\ models' =
           IF held.array # "model" THEN models
           ELSE IF held.of = "vars"
                THEN [models EXCEPT ![held.model].vars = Overlay(@, elems)]
                ELSE [models EXCEPT
                          ![held.model].constraints = Overlay(@, elems)]
    /\ last' = [op |-> "call", model |-> held.model, panic |-> FALSE]
    /\ UNCHANGED <<varHeap, conHeap, budget>>

HeldInputs ==
    IF held.of = "vars" THEN VarsOf(held.model)
    ELSE IF held.of = "constraints" THEN ConstraintsOf(held.model)
    ELSE {}

HeldSet(i, x)   == HeldBecomes([held.elems EXCEPT ![i] = x])
HeldSwap(i, j)  ==
    HeldBecomes([held.elems EXCEPT ![i] = held.elems[j], ![j] = held.elems[i]])
HeldTruncate(k) == HeldBecomes(SubSeq(held.elems, 1, k))
HeldAppend(x)   == HeldBecomes(Append(held.elems, x))

InitSlices == InitWith(MaxSliceCalls)

NextSlices ==
    \/ \E m \in ModelPtrs : NewBool(m)
    \/ \E m \in ModelPtrs, b \in FloatBoundInputs : NewFloat(m, b[1], b[2])
    \/ \E m \in ModelPtrs, b \in IntBoundInputs : NewInt(m, b[1], b[2])
    \/ \E m \in ModelPtrs, a \in ConstraintInputs :
           NewConstraint(m, a[1], a[2])
    \/ \E m \in ModelPtrs : GetVars(m)
    \/ \E m \in ModelPtrs : GetConstraints(m)
    \/ \E i \in 1..Len(held.elems), x \in HeldInputs :
           x # held.elems[i] /\ HeldSet(i, x)
    \/ \E i, j \in 1..Len(held.elems) :
           i < j /\ held.elems[i] # held.elems[j] /\ HeldSwap(i, j)
    \/ \E k \in 0..(Len(held.elems) - 1) : HeldTruncate(k)
    \/ \E x \in HeldInputs : HeldAppend(x)

SpecSlices == InitSlices /\ [][NextSlices]_vars

(* Names: constraints that are equal in sense, right-hand side and terms,  *)
(* and two names to set one after the other.                               *)
RenameInputs == {"a", "b"}

InitNames == InitWith(MaxNameCalls)

NextNames ==
    \/ \E m \in ModelPtrs : NewBool(m)
    \/ \E m \in ModelPtrs : NewConstraint(m, LessThanOrEqual, F(1))
    \/ \E m \in ModelPtrs : \E c \in ConstraintsOf(m), v \in VarsOf(m) :
           ConstraintNewTerm(m, c, F(1), v)
    \/ \E m \in ModelPtrs : \E v \in VarsOf(m) : \E n \in RenameInputs :
           VarSetName(m, v, n)
    \/ \E m \in ModelPtrs : \E c \in ConstraintsOf(m) :
       \E n \in RenameInputs : ConstraintSetName(m, c, n)

SpecNames == InitNames /\ [][NextNames]_vars

(* Terms across models: NewTerm accepts any Var, so the caller may pass a  *)
(* variable of another model, such as the copy's variable of the same      *)
(* index.  Terms() and Term(v) are calls too; they return a value and      *)
(* assign nothing.                                                         *)
AllVars == DOMAIN varHeap

ConstraintReads(m, c) == Returns("Constraint.Terms", m, World)
ObjectiveReads(m)     == Returns("Objective.Terms", m, World)

InitCross == InitWith(MaxCrossCalls)

NextCross ==
    \/ \E m \in ModelPtrs : NewBool(m)
    \/ \E m \in ModelPtrs : NewConstraint(m, LessThanOrEqual, F(1))
    \/ \E m \in ModelPtrs : \E c \in ConstraintsOf(m), v \in AllVars :
       \E k \in CoefInputs : ConstraintNewTerm(m, c, k, v)
    \/ \E m \in ModelPtrs : \E v \in AllVars : \E k \in CoefInputs :
           ObjectiveNewTerm(m, k, v)
    \/ \E m \in ModelPtrs : \E c \in ConstraintsOf(m) : ConstraintReads(m, c)
    \/ \E m \in ModelPtrs : ObjectiveReads(m)
    \/ \E m \in ModelPtrs : Len(models) < MaxModels /\ Copy(m)

SpecCross == InitCross /\ [][NextCross]_vars

---------------------------------------------------------------------------
(* What a caller observes of a model.                                      *)

VarView(w, v) ==
    [index |-> Index(w, v), isFloat |-> IsFloat(w, v), isInt |-> IsInt(w, v),
     isBool |-> IsBool(w, v), lowerBound |-> LowerBound(w, v),
     upperBound |-> UpperBound(w, v), name |-> VarName(w, v)]

(* A canonical term list with variables named by index, as a bag.          *)
ByIndex(w, ts) ==
    [p \in {<<Index(w, ts[i].variable), ts[i].coefficient>> : i \in 1..Len(ts)}
       |-> Cardinality({i \in 1..Len(ts) :
              <<Index(w, ts[i].variable), ts[i].coefficient>> = p})]

QuadraticByIndex(w, ts) ==
    [p \in {<<Index(w, ts[i].variable1), Index(w, ts[i].variable2),
              ts[i].coefficient>> : i \in 1..Len(ts)}
       |-> Cardinality({i \in 1..Len(ts) :
              <<Index(w, ts[i].variable1), Index(w, ts[i].variable2),
                ts[i].coefficient>> = p})]

ConstraintView(w, c) ==
    [sense |-> Sense(w, c), rightHandSide |-> RightHandSide(w, c),
     name |-> constraintName(w, c),
     terms |-> ByIndex(w, constraintTerms(w, c))]

(* Vars(), Constraints(), IsMaximize() and the linear Terms().             *)
LinearView(w, m) ==
    [vars        |-> [i \in 1..Len(modelVars(w, m)) |->
                         VarView(w, modelVars(w, m)[i])],
     constraints |-> [i \in 1..Len(modelConstraints(w, m)) |->
                         ConstraintView(w, modelConstraints(w, m)[i])],
     isMaximize  |-> IsMaximize(w, m),
     terms       |-> ByIndex(w, objectiveTerms(w, m))]

QuadraticView(w, m) ==
    [quadraticTerms |-> QuadraticByIndex(w, objectiveQuadraticTerms(w, m)),
     isQuadratic    |-> IsQuadratic(w, m),
     isLinear       |-> IsLinear(w, m)]

(* Term(v) and QuadraticTerm(v1, v2) for the variables of the model, the   *)
(* pointers handed out and the raw lists.                                  *)
FullView(w, m) ==
    [linear    |-> LinearView(w, m),
     quadratic |-> QuadraticView(w, m),
     varPtrs   |-> modelVars(w, m),
     conPtrs   |-> modelConstraints(w, m),
     term      |-> [i \in 1..Len(modelVars(w, m)) |->
                       objectiveTerm(w, m, modelVars(w, m)[i])],
     conTerm   |-> [j \in 1..Len(modelConstraints(w, m)) |->
                       [i \in 1..Len(modelVars(w, m)) |->
                           constraintTerm(w, modelConstraints(w, m)[j],
                                          modelVars(w, m)[i])]],
     quadTerm  |-> [i \in 1..Len(modelVars(w, m)) |->
                       [j \in 1..Len(modelVars(w, m)) |->
                           objectiveQuadraticTerm(w, m, modelVars(w, m)[i],
                                                  modelVars(w, m)[j])]]]

Copied  == last.op = "Copy" /\ ~last.panic
Source  == last.model
TheCopy == Len(models)

---------------------------------------------------------------------------
(* C3: in every reachable state the variable at position i of Vars() has   *)
(* Index() = i (zero-based, so indices are 0..n-1 in creation order), and  *)
(* no call changes the index of an existing variable.                      *)
IndexIsPosition ==
    \A m \in ModelPtrs : \A i \in 1..Len(modelVars(World, m)) :
        Index(World, modelVars(World, m)[i]) = i - 1

IndexNeverChanges ==
    \A v \in 1..Len(varHeap) : Index(WorldNext, v) = Index(World, v)

C3_DenseIndices == []IndexIsPosition /\ [][IndexNeverChanges]_vars

(* A model with a float, an int and a bool variable and a term.            *)
C3_Witness ==
    \E m \in ModelPtrs :
        /\ Len(models[m].vars) = 3
        /\ {varHeap[v].kind : v \in VarsOf(m)} = {"float", "int", "bool"}
        /\ Len(models[m].objective.terms) = 1

(* C4: Copy() returns a model with, position by position, the same kinds,  *)
(* bounds and names of variables, the same objective sense, the same       *)
(* senses, right-hand sides and names of constraints, and the same         *)
(* canonical Terms() by variable index.                                    *)
C4_CopyEqualsSource ==
    Copied => LinearView(World, TheCopy) = LinearView(World, Source)

(* C5: Copy() replays the quadratic terms of the objective, so that        *)
(* QuadraticTerms(), IsQuadratic() and IsLinear() of the copy are those of *)
(* the source.                                                             *)
C5_CopyKeepsQuadratic ==
    Copied => QuadraticView(World, TheCopy) = QuadraticView(World, Source)

(* C6: a call on one model changes no observable of another model, Copy()  *)
(* changes no observable of its source, and no variable or constraint      *)
(* object belongs to two models.                                           *)
NothingShared ==
    /\ \A m1, m2 \in ModelPtrs :
           m1 # m2 => /\ VarsOf(m1) \cap VarsOf(m2) = {}
                      /\ ConstraintsOf(m1) \cap ConstraintsOf(m2) = {}
    /\ \A m \in ModelPtrs :
           /\ \A v \in VarsOf(m) : varHeap[v].model = m
           /\ \A c \in ConstraintsOf(m) : conHeap[c].model = m

OthersUnchanged ==
    \A m \in ModelPtrs :
        (m # last'.model \/ last'.op = "Copy")
            => FullView(WorldNext, m) = FullView(World, m)

C6_CopyIsIndependent == []NothingShared /\ [][OthersUnchanged]_vars

(* After a copy, a call changed the copy of a model that has a variable,   *)
(* a constraint and a term.                                                *)
C6_Witness ==
    /\ Len(models) = 2
    /\ last.op = "call" /\ last.model = 2
    /\ budget = 0
    /\ Len(models[1].vars) > 0 /\ Len(models[1].constraints) > 0
    /\ Len(models[1].objective.terms) > 0

---------------------------------------------------------------------------
(* The calls made on a term store, read off its raw list: every NewTerm    *)
(* call appended one raw term with the coefficient and variable supplied.  *)

RECURSIVE CoefSum(_, _)
CoefSum(raw, v) ==
    IF raw = <<>> THEN 0
    ELSE (IF Head(raw).variable = v THEN Head(raw).coefficient ELSE 0)
         + CoefSum(Tail(raw), v)

CallCount(raw, v) == Cardinality({i \in 1..Len(raw) : raw[i].variable = v})

Entries(ts, v) == {i \in 1..Len(ts) : ts[i].variable = v}

(* The same for the quadratic store and an unordered pair of variables.    *)
RECURSIVE PairSum(_, _, _)
PairSum(raw, a, b) ==
    IF raw = <<>> THEN 0
    ELSE (IF {Head(raw).variable1, Head(raw).variable2} = {a, b}
          THEN Head(raw).coefficient ELSE 0)
         + PairSum(Tail(raw), a, b)

PairEntries(ts, a, b) ==
    {i \in 1..Len(ts) : {ts[i].variable1, ts[i].variable2} = {a, b}}

OwnVariables(raw, m) == \A i \in 1..Len(raw) : raw[i].variable \in VarsOf(m)

(* The term stores of model m: the raw list, Terms() and a constraint      *)
(* pointer, 0 for the objective.                                           *)
Stores(m) ==
    {[raw |-> models[m].objective.terms, terms |-> objectiveTerms(World, m),
      con |-> 0]}
    \cup {[raw |-> conHeap[c].terms, terms |-> constraintTerms(World, c),
           con |-> c] : c \in ConstraintsOf(m)}

TermOf(m, store, v) ==
    IF store.con = 0 THEN objectiveTerm(World, m, v)
    ELSE constraintTerm(World, store.con, v)

---------------------------------------------------------------------------
(* C1: after any NewTerm calls with variables of the owning model, Terms() *)
(* has exactly one entry for each variable whose coefficients sum to a     *)
(* nonzero value, with that sum as coefficient, and no entry for a         *)
(* variable whose coefficients sum to zero.                                *)
C1_CanonicalTerms ==
    \A m \in ModelPtrs : \A s \in Stores(m) :
        OwnVariables(s.raw, m) =>
            /\ \A i \in 1..Len(s.terms) : s.terms[i].variable \in VarsOf(m)
            /\ \A v \in VarsOf(m) :
                   /\ Cardinality(Entries(s.terms, v))
                          = IF CoefSum(s.raw, v) # 0 THEN 1 ELSE 0
                   /\ \A i \in Entries(s.terms, v) :
                          s.terms[i].coefficient = CoefSum(s.raw, v)

(* A store where one variable got nonzero terms that cancel and another    *)
(* variable has a nonzero sum.                                             *)
C1_Witness ==
    \E m \in ModelPtrs : \E s \in Stores(m) : \E x, y \in VarsOf(m) :
        /\ \E i \in 1..Len(s.raw) :
               s.raw[i].variable = x /\ s.raw[i].coefficient # 0
        /\ CoefSum(s.raw, x) = 0
        /\ CoefSum(s.raw, y) # 0
        /\ Len(s.terms) = 1

(* C2: QuadraticTerms() has at most one entry per unordered pair of        *)
(* variables, its coefficient is the sum of the coefficients supplied for  *)
(* the pair in either order, and the pair is absent when the sum is zero.  *)
C2_QuadraticSymmetric ==
    \A m \in ModelPtrs : \A a, b \in VarsOf(m) :
        LET raw == models[m].objective.quadraticTerms
            ts  == objectiveQuadraticTerms(World, m)
        IN  /\ Cardinality(PairEntries(ts, a, b))
                   = IF PairSum(raw, a, b) # 0 THEN 1 ELSE 0
            /\ \A i \in PairEntries(ts, a, b) :
                   ts[i].coefficient = PairSum(raw, a, b)

(* Two quadratic terms were added for a pair of distinct variables and     *)
(* QuadraticTerms() reports the pair once, with the sum.                   *)
C2_Witness ==
    \E m \in ModelPtrs : \E a, b \in VarsOf(m) :
        LET raw == models[m].objective.quadraticTerms
            ts  == objectiveQuadraticTerms(World, m)
        IN  /\ a # b
            /\ Cardinality(PairEntries(raw, a, b)) = 2
            /\ Len(ts) = 1 /\ ts[1].coefficient = 2

(* C7: IsQuadratic() is true exactly when QuadraticTerms() is non-empty,   *)
(* and IsLinear() is its negation.                                         *)
C7_QuadraticIffCanonical ==
    \A m \in ModelPtrs :
        /\ IsQuadratic(World, m) <=> Len(objectiveQuadraticTerms(World, m)) > 0
        /\ IsLinear(World, m) <=> ~IsQuadratic(World, m)

(* C9: Term(v) returns a term for v with the sum of the coefficients of    *)
(* all NewTerm calls made for v, and the number of those calls.            *)
C9_TermSumsAndCounts ==
    \A m \in ModelPtrs : \A s \in Stores(m) :
        OwnVariables(s.raw, m) =>
            \A v \in VarsOf(m) :
                TermOf(m, s, v) =
                    [term        |-> term(CoefSum(s.raw, v), v),
                     definitions |-> CallCount(s.raw, v)]

(* A store with two calls for one variable, one of them with coefficient   *)
(* zero, and a variable that was never referenced.                         *)
C9_Witness ==
    \E m \in ModelPtrs : \E s \in Stores(m) : \E x, y \in VarsOf(m) :
        /\ TermOf(m, s, x) = [term |-> term(1, x), definitions |-> 2]
        /\ TermOf(m, s, y) = [term |-> term(0, y), definitions |-> 0]

---------------------------------------------------------------------------
(* C8: a call that panics on a NaN bound, right-hand side or coefficient   *)
(* leaves the variables, the constraints and every raw term list of the    *)
(* model as they were before the call.                                     *)
PanicLinksNothing == last'.panic => UNCHANGED <<models, varHeap, conHeap>>

C8_NaNRejectedBeforeLinking == [][PanicLinksNothing]_vars

(* NewTerm on the objective panicked on a model that already has a         *)
(* variable, a constraint and an objective term.                           *)
C8_Witness ==
    /\ last.panic /\ last.op = "Objective.NewTerm"
    /\ \E m \in ModelPtrs :
           /\ VarsOf(m) # {} /\ ConstraintsOf(m) # {}
           /\ Len(models[m].objective.terms) = 1

---------------------------------------------------------------------------
(* C10: writing to, reordering, truncating or appending to a slice that    *)
(* Vars() or Constraints() returned changes neither what Vars() and        *)
(* Constraints() return afterwards nor the index of the next variable, and *)
(* a call on the model does not change a slice returned earlier.           *)
CallerWrote == held'.ops # held.ops

ModelKeepsItsSlices ==
    CallerWrote =>
        \A m \in ModelPtrs :
            /\ modelVars(WorldNext, m) = modelVars(World, m)
            /\ modelConstraints(WorldNext, m) = modelConstraints(World, m)
            /\ Len(models'[m].vars) = Len(models[m].vars)

HeldKeepsItsElements ==
    (models' # models /\ ~CallerWrote) => held' = held

C10_DefensiveCopies ==
    [][ModelKeepsItsSlices /\ HeldKeepsItsElements]_vars

(* The caller wrote twice to a slice from Vars(); it now differs from what *)
(* Vars() returns, and the model has a variable created after the slice    *)
(* was returned.                                                           *)
C10_Witness ==
    /\ held.of = "vars" /\ held.ops = 2
    /\ Len(held.elems) = 2
    /\ Len(modelVars(World, held.model)) = 3
    /\ held.elems # SubSeq(modelVars(World, held.model), 1, 2)

---------------------------------------------------------------------------
(* C11: a variable on which SetName was never called has a Name() that no  *)
(* other such variable of the model has, and a SetName(s) call makes       *)
(* Name() return s.                                                        *)
NeverNamed(m) == {v \in VarsOf(m) : v \notin DOMAIN models[m].varNames}

DefaultNamesUnique ==
    \A m \in ModelPtrs : \A u, v \in NeverNamed(m) :
        u # v => VarName(World, u) # VarName(World, v)

SetNameSetsName ==
    \A m \in ModelPtrs : \A v \in VarsOf(m) : \A n \in NameInputs :
        VarSetName(m, v, n) => VarName(WorldNext, v) = n

C11_NameDefaultsUnique == []DefaultNamesUnique /\ [][SetNameSetsName]_vars

---------------------------------------------------------------------------
(* C12: a constraint that was never named has the empty name; SetName(n)   *)
(* on a constraint makes its Name() n and changes no other constraint's    *)
(* name, no variable's name and no constraint's sense, right-hand side or  *)
(* terms, also when other constraints are equal to it in all three.        *)
NeverNamedConstraints(m) ==
    {c \in ConstraintsOf(m) : c \notin DOMAIN models[m].constraintNames}

UnnamedIsEmpty ==
    \A m \in ModelPtrs : \A c \in NeverNamedConstraints(m) :
        constraintName(World, c) = ""

ConstraintBody(w, c) ==
    [sense |-> Sense(w, c), rightHandSide |-> RightHandSide(w, c),
     terms |-> w.conHeap[c].terms]

SetNameTouchesOneName ==
    \A m \in ModelPtrs : \A c \in ConstraintsOf(m) : \A n \in RenameInputs :
        ConstraintSetName(m, c, n) =>
            /\ constraintName(WorldNext, c) = n
            /\ \A d \in DOMAIN conHeap :
                   /\ d # c => constraintName(WorldNext, d)
                                   = constraintName(World, d)
                   /\ ConstraintBody(WorldNext, d) = ConstraintBody(World, d)
            /\ \A v \in DOMAIN varHeap :
                   VarName(WorldNext, v) = VarName(World, v)

---------------------------------------------------------------------------
(* C13: a fresh model minimizes; SetMaximize makes IsMaximize() true and   *)
(* SetMinimize makes it false, neither changes anything else, and no other *)
(* call changes the sense of a model.                                      *)
FreshMinimizes == last.op = "NewModel" => ~IsMaximize(World, 1)

SenseErased(ms) ==
    [i \in DOMAIN ms |-> [ms[i] EXCEPT !.objective.maximize = FALSE]]

OnlySenseChanged ==
    /\ SenseErased(models') = SenseErased(models)
    /\ UNCHANGED <<varHeap, conHeap>>

SenseFollowsLastCall ==
    \A m \in ModelPtrs :
        /\ ObjectiveSetMaximize(m) =>
               IsMaximize(WorldNext, m) /\ OnlySenseChanged
        /\ ObjectiveSetMinimize(m) =>
               ~IsMaximize(WorldNext, m) /\ OnlySenseChanged
        /\ IsMaximize(WorldNext, m) # IsMaximize(World, m) =>
               ObjectiveSetMaximize(m) \/ ObjectiveSetMinimize(m)

C13_SenseIsLastCall == []FreshMinimizes /\ [][SenseFollowsLastCall]_vars

(* A model with linear and quadratic objective terms that maximizes.       *)
C13_Witness ==
    \E m \in ModelPtrs :
        /\ IsMaximize(World, m)
        /\ Len(models[m].objective.terms) > 0
        /\ Len(models[m].objective.quadraticTerms) > 0

---------------------------------------------------------------------------
(* C14: String() of a constraint or objective lists the canonical terms,   *)
(* each variable once with its summed coefficient and zero sums left out,  *)
(* in ascending variable index whatever the order of the NewTerm calls and *)
(* of the map; the objective lists the linear terms and then the quadratic *)
(* terms in ascending (index, index) order.                                *)
ExpectedTerms(m, raw) ==
    LET kept == SelectSeq(models[m].vars, LAMBDA v : CoefSum(raw, v) # 0)
    IN  [i \in 1..Len(kept) |-> term(CoefSum(raw, kept[i]), kept[i])]

ExpectedQuadraticTerms(m, raw) ==
    LET vs == models[m].vars
        row(i) == SelectSeq([j \in 1..Len(vs) |-> <<i, j>>],
                      LAMBDA p : p[2] >= i /\ PairSum(raw, vs[i], vs[p[2]]) # 0)
        pairs == Flatten([i \in 1..Len(vs) |-> row(i)])
    IN  [k \in 1..Len(pairs) |->
            quadraticTerm(PairSum(raw, vs[pairs[k][1]], vs[pairs[k][2]]),
                          vs[pairs[k][1]], vs[pairs[k][2]])]

ExpectedConstraintString(m, c) ==
    constraintTermsString(World, ExpectedTerms(m, conHeap[c].terms), 1)
        \o senseString(conHeap[c].sense) \o " "
        \o ToString(conHeap[c].rightHandSide)

ExpectedObjectiveString(m) ==
    LET ts == ExpectedTerms(m, models[m].objective.terms)
        qs == ExpectedQuadraticTerms(m, models[m].objective.quadraticTerms)
    IN  (IF models[m].objective.maximize THEN "maximize" ELSE "minimize")
            \o objectiveTermsString(
                   [i \in 1..Len(ts) |-> termString(World, ts[i])]
                       \o [i \in 1..Len(qs) |->
                               quadraticTermString(World, qs[i])], " ")

C14_StringSortedByIndex ==
    \A m \in ModelPtrs :
        /\ \A c \in ConstraintsOf(m) :
               OwnVariables(conHeap[c].terms, m) =>
                   \A terms \in Orderings(constraintTerms(World, c)) :
                       constraintString(World, c, terms)
                           = ExpectedConstraintString(m, c)
        /\ OwnVariables(models[m].objective.terms, m) =>
               \A terms \in Orderings(objectiveTerms(World, m)) :
               \A qTerms \in Orderings(objectiveQuadraticTerms(World, m)) :
                   objectiveString(World, m, terms, qTerms)
                       = ExpectedObjectiveString(m)

(* A constraint whose terms were added for the second variable first, and  *)
(* an objective with a linear and a quadratic term.                        *)
C14_Witness ==
    \E m \in ModelPtrs : \E c \in ConstraintsOf(m) :
        /\ Len(conHeap[c].terms) = 2
        /\ Index(World, conHeap[c].terms[1].variable) = 1
        /\ \A terms \in Orderings(constraintTerms(World, c)) :
               constraintString(World, c, terms) = "1 B0 + -1 B1 <= 1"

C14_ObjectiveWitness ==
    \E m \in ModelPtrs :
        \A terms \in Orderings(objectiveTerms(World, m)) :
        \A qTerms \in Orderings(objectiveQuadraticTerms(World, m)) :
            objectiveString(World, m, terms, qTerms)
                = "minimize   1 B1 + -1 B0*B1 + 1 B1^2"

---------------------------------------------------------------------------
(* C15: every quadratic term of the raw list (the last of which is what    *)
(* NewQuadraticTerm returned), every element of QuadraticTerms() and the   *)
(* term that QuadraticTerm(v1, v2) returns has Var1().Index() <=           *)
(* Var2().Index(), and QuadraticTerm gives the same coefficient and        *)
(* definition count for (v1, v2) and (v2, v1).                             *)
Ordered(t) == Index(World, t.variable1) <= Index(World, t.variable2)

AllOrdered(ts) == \A i \in 1..Len(ts) : Ordered(ts[i])

C15_QuadraticPairsOrdered ==
    \A m \in ModelPtrs :
        /\ AllOrdered(models[m].objective.quadraticTerms)
        /\ AllOrdered(objectiveQuadraticTerms(World, m))
        /\ \A a, b \in VarsOf(m) :
               /\ Ordered(objectiveQuadraticTerm(World, m, a, b).term)
               /\ objectiveQuadraticTerm(World, m, a, b)
                      = objectiveQuadraticTerm(World, m, b, a)

(* Two raw terms for a pair of distinct variables, merged into one entry   *)
(* of QuadraticTerms(), and looked up with the larger index first.         *)
C15_Witness ==
    \E m \in ModelPtrs : \E a, b \in VarsOf(m) :
        /\ Index(World, a) < Index(World, b)
        /\ objectiveQuadraticTerm(World, m, b, a)
               = [term |-> quadraticTerm(0 - 2, a, b), definitions |-> 2]
        /\ objectiveQuadraticTerms(World, m) = <<quadraticTerm(0 - 2, a, b)>>

---------------------------------------------------------------------------
(* C16: for every constraint and objective and every variable v, v has an  *)
(* entry in Terms() exactly when Term(v) reports a nonzero coefficient,    *)
(* the two coefficients are then equal, and a call of Terms() or Term(v)   *)
(* changes nothing.                                                        *)
ReadPathsAgree ==
    \A m \in ModelPtrs : \A s \in Stores(m) : \A v \in AllVars :
        /\ Entries(s.terms, v) # {} <=> TermOf(m, s, v).term.coefficient # 0
        /\ \A i \in Entries(s.terms, v) :
               s.terms[i].coefficient = TermOf(m, s, v).term.coefficient

ReadsChangeNothing ==
    \A m \in ModelPtrs :
        (ObjectiveReads(m) \/ \E c \in ConstraintsOf(m) : ConstraintReads(m, c))
            => UNCHANGED <<models, varHeap, conHeap>>

C16_ReadPathsAgree == []ReadPathsAgree /\ [][ReadsChangeNothing]_vars

====
